---------------------------- MODULE Spec2Model ----------------------------
(***************************************************************************)
(* Model of the LegalMind clause analysis pipeline.                        *)
(*                                                                         *)
(* The server runs in one of two modes: "ai" (main.py with                 *)
(* backend/analyzer.py and backend/logic/grantie.py) or "free"             *)
(* (main_free.py with backend/analyzer_free.py).  One behaviour is one     *)
(* request served by the process: the request's input is drawn when it     *)
(* arrives and the handler then runs step by step.  Texts are strings;     *)
(* keyword tests are real substring tests on the lower-cased text.         *)
(***************************************************************************)
EXTENDS Integers, Sequences, FiniteSets, TLC

VARIABLES
    mode,        \* "ai" | "free": which application module is serving
    api_key,     \* openai.api_key is set (loaded once at import time)
    pc,          \* position of the request handler
    endpoint,    \* the endpoint of the request being served
    upload,      \* the uploaded document: [parseable, paragraphs]
    tmp_file,    \* the temporary file on disk: "none" | "exists" | "deleted"
    tmp_path,    \* TRUE once the local tmp_path is bound
    clauses,     \* local of analyze_uploaded_file: the extracted clauses
    i,           \* loop index (1-based) of the clause being processed
    analysis,    \* local: the explanation of the current clause
    results,     \* local: the records built so far
    exc,         \* message of the exception caught by analyze_uploaded_file
    ret,         \* value returned by analyze_uploaded_file
    inflight,    \* the completion-service calls in flight: a set of <<function, index>>
    calls,       \* log of completion-service calls: <<function, index, outcome>>
    triaged,     \* indices of the clauses whose has_warranty_terms is computed
    client,      \* who sent a /speak/ request: "frontend" | "direct"
    elevenlabs_key,  \* ELEVENLABS_API_KEY is set
    tts_requests,    \* the texts posted to the speech-synthesis service
    payload,     \* JSON payload of a /grantie/... request
    response     \* the response of the endpoint

vars == <<mode, api_key, pc, endpoint, upload, tmp_file, tmp_path, clauses, i,
          analysis, results, exc, ret, inflight, calls, payload, response,
          triaged, client, elevenlabs_key, tts_requests>>

\* the state of the /speak/ handler
tts_vars == <<client, elevenlabs_key, tts_requests>>

---------------------------------------------------------------------------
(* Bounds of the model.                                                    *)

MaxParas == 2       \* paragraphs in an uploaded document
MaxClauses == 4     \* records in a /grantie/compliance/ payload
MaxFullParas == 1   \* paragraphs in a document uploaded to /grantie/full-analysis/

---------------------------------------------------------------------------
(* Python string operations.                                               *)

Whitespace == {" ", "\t", "\n"}

UpperToLower ==
    [c \in {"A","B","C","D","E","F","G","H","I","J","K","L","M",
            "N","O","P","Q","R","S","T","U","V","W","X","Y","Z"} |->
        CASE c = "A" -> "a" [] c = "B" -> "b" [] c = "C" -> "c" [] c = "D" -> "d"
          [] c = "E" -> "e" [] c = "F" -> "f" [] c = "G" -> "g" [] c = "H" -> "h"
          [] c = "I" -> "i" [] c = "J" -> "j" [] c = "K" -> "k" [] c = "L" -> "l"
          [] c = "M" -> "m" [] c = "N" -> "n" [] c = "O" -> "o" [] c = "P" -> "p"
          [] c = "Q" -> "q" [] c = "R" -> "r" [] c = "S" -> "s" [] c = "T" -> "t"
          [] c = "U" -> "u" [] c = "V" -> "v" [] c = "W" -> "w" [] c = "X" -> "x"
          [] c = "Y" -> "y" [] c = "Z" -> "z"]

\* str.lower()
RECURSIVE lower(_)
lower(s) ==
    IF Len(s) = 0 THEN ""
    ELSE LET c == SubSeq(s, 1, 1)
         IN  (IF c \in DOMAIN UpperToLower THEN UpperToLower[c] ELSE c)
                 \o lower(SubSeq(s, 2, Len(s)))

\* str.strip()
RECURSIVE lstrip(_)
lstrip(s) ==
    IF Len(s) > 0 /\ SubSeq(s, 1, 1) \in Whitespace
    THEN lstrip(SubSeq(s, 2, Len(s))) ELSE s

RECURSIVE rstrip(_)
rstrip(s) ==
    IF Len(s) > 0 /\ SubSeq(s, Len(s), Len(s)) \in Whitespace
    THEN rstrip(SubSeq(s, 1, Len(s) - 1)) ELSE s

strip(s) == rstrip(lstrip(s))

\* keyword in text
contains(text, keyword) ==
    \E k \in 1..(Len(text) - Len(keyword) + 1) :
        SubSeq(text, k, k + Len(keyword) - 1) = keyword

\* any(keyword in text for keyword in keywords)
any_in(keywords, text) ==
    \E n \in 1..Len(keywords) : contains(text, keywords[n])

\* " ".join(parts)
RECURSIVE join(_)
join(parts) ==
    IF Len(parts) = 0 THEN ""
    ELSE IF Len(parts) = 1 THEN parts[1]
    ELSE parts[1] \o " " \o join(Tail(parts))


---------------------------------------------------------------------------
(* The completion service (openai.ChatCompletion.create) as the code sees  *)
(* it: it answers, or raises one of the exception classes the code         *)
(* distinguishes.  "Exception" is any other failure (network, timeout).    *)

ServiceOutcomes == {"ok", "AuthenticationError", "RateLimitError", "APIError", "Exception"}

\* response.choices[0].message.content.strip()
completion_content == "Plain-language text from the completion service"

\* str(e) of an exception raised by the service
str_e(outcome) ==
    CASE outcome = "AuthenticationError" -> "Incorrect API key provided"
      [] outcome = "RateLimitError" -> "You exceeded your current quota"
      [] outcome = "APIError" -> "The server had an error"
      [] OTHER -> "Connection aborted"

NoCall == { }

---------------------------------------------------------------------------
(* backend/analyzer.py and backend/analyzer_free.py                        *)

\* the minimum clause length of each mode
min_clause_length_ai == 10
min_clause_length_free == 20
min_clause_length == IF mode = "ai" THEN min_clause_length_ai ELSE min_clause_length_free

\* off by one: a clause of exactly the minimum length is skipped as well
too_short_off_by_one(clause) == Len(strip(clause)) <= min_clause_length

\* len(clause.strip()) < N : the clause is skipped
too_short(clause) == Len(strip(clause)) < min_clause_length

\* [para.text.strip() for para in doc.paragraphs if para.text.strip()]
RECURSIVE extract_clauses_from_docx(_)
extract_clauses_from_docx(paragraphs) ==
    IF Len(paragraphs) = 0 THEN << >>
    ELSE LET text == strip(Head(paragraphs))
         IN  (IF Len(text) > 0 THEN <<text>> ELSE << >>)
                 \o extract_clauses_from_docx(Tail(paragraphs))

warranty_keywords ==
    <<"warrant", "guarantee", "assure", "promise", "liability", "disclaim", "as-is">>

\* the clause is not lower-cased before the keyword test
has_warranty_terms_case_sensitive(clause) == any_in(warranty_keywords, clause)

\* any(keyword in clause.lower() for keyword in warranty_keywords)
\* every clause is taken to hold warranty terms
has_warranty_terms_always(clause) == TRUE

\* the triage knows the guarantee words only
has_warranty_terms_guarantee_words_only(clause) ==
    any_in(<<"guarantee", "assure", "promise">>, lower(clause))

\* the keyword-only application compares without lowering the clause
has_warranty_terms_case_sensitive_when_free(clause) ==
    IF mode = "free" THEN any_in(warranty_keywords, clause)
    ELSE any_in(warranty_keywords, lower(clause))

has_warranty_terms(clause) == any_in(warranty_keywords, lower(clause))

\* the handlers for AuthenticationError and RateLimitError are missing
explain_result_generic_only(outcome) ==
    IF outcome = "ok" THEN completion_content
    ELSE "Error analyzing clause: " \o str_e(outcome)

\* what analyze_clause_with_openai returns for each answer of the service
explain_result(outcome) ==
    CASE outcome = "ok" -> completion_content
      [] outcome = "AuthenticationError" ->
            "Error: Invalid OpenAI API key. Please check your .env file."
      [] outcome = "RateLimitError" ->
            "Error: OpenAI rate limit exceeded. Please try again later or check your account balance."
      [] outcome = "APIError" -> "Error: OpenAI API error - " \o str_e(outcome)
      [] OTHER -> "Error analyzing clause: " \o str_e(outcome)

\* what analyze_clause_for_grantie returns for each answer of the service
grantie_result(outcome) ==
    CASE outcome = "ok" -> completion_content
      [] outcome = "AuthenticationError" ->
            "Error: Invalid OpenAI API key for Grantie analysis."
      [] outcome = "RateLimitError" ->
            "Error: OpenAI rate limit exceeded for Grantie analysis."
      [] OTHER -> "Error analyzing clause for Grantie: " \o str_e(outcome)

\* analyze_clause_simple: the rule-based explanation of the keyword-only mode
analyze_clause_simple(clause) ==
    "Legal Clause Analysis:"
      \o (IF any_in(<<"penalty", "breach", "default", "liability", "damages", "terminate">>,
                    lower(clause))
          THEN " HIGH RISK"
          ELSE IF any_in(<<"obligation", "requirement", "must", "shall">>, lower(clause))
          THEN " MEDIUM RISK"
          ELSE " LOW RISK")

\* analyze_clause_for_grantie_simple: the rule-based warranty analysis
analyze_clause_for_grantie_simple(clause) ==
    "Warranty & Guarantee Analysis:"
      \o (IF any_in(<<"warrant", "warranty">>, lower(clause))
          THEN " WARRANTY FOUND" ELSE "")
      \o (IF any_in(<<"guarantee", "assure", "promise">>, lower(clause))
          THEN " GUARANTEE FOUND" ELSE "")
      \o (IF any_in(<<"as-is", "disclaim", "limitation">>, lower(clause))
          THEN " DISCLAIMER FOUND" ELSE "")
      \o (IF any_in(<<"liable", "liability", "responsible">>, lower(clause))
          THEN " LIABILITY TERMS" ELSE "")

\* the warranty analysis is not stored in the record
grantie_record_without_field(clause, text, grantie) ==
    [clause |-> clause, analysis |-> text, has_warranty_terms |-> TRUE]

\* the record of an unflagged clause, and its extension for a flagged one
plain_record(clause, text) ==
    [clause |-> clause, analysis |-> text, has_warranty_terms |-> FALSE]

grantie_record(clause, text, grantie) ==
    [clause |-> clause, analysis |-> text, has_warranty_terms |-> TRUE,
     grantie_analysis |-> grantie]

\* the except branch flags its record and attaches a warranty analysis
error_result_with_warranty_analysis(message) ==
    << [clause |-> "Error processing document",
        analysis |-> "Failed to analyze document: " \o message,
        has_warranty_terms |-> TRUE,
        grantie_analysis |-> "Failed to analyze document: " \o message] >>

\* the list returned by the except branch of analyze_uploaded_file
error_result(message) ==
    << [clause |-> "Error processing document",
        analysis |-> "Failed to analyze document: " \o message,
        has_warranty_terms |-> FALSE] >>

---------------------------------------------------------------------------
(* backend/logic/grantie.py and the rule-based functions of main_free.py   *)

\* the list element is a JSON object (a dict); a JSON string is written
\* [json_string |-> s]
is_dict(element) == "json_string" \notin DOMAIN element

\* dict.get(key, default)
get(record, key, default) == IF key \in DOMAIN record THEN record[key] ELSE default

\* the default of the flag is True: a record without the key counts as flagged
RECURSIVE warranty_clauses_default_true(_)
warranty_clauses_default_true(list) ==
    IF Len(list) = 0 THEN << >>
    ELSE (IF get(Head(list), "has_warranty_terms", TRUE) THEN <<Head(list)>> ELSE << >>)
             \o warranty_clauses_default_true(Tail(list))

\* [clause for clause in clauses if clause.get("has_warranty_terms", False)]
RECURSIVE warranty_clauses(_)
warranty_clauses(list) ==
    IF Len(list) = 0 THEN << >>
    ELSE (IF get(Head(list), "has_warranty_terms", FALSE) THEN <<Head(list)>> ELSE << >>)
             \o warranty_clauses(Tail(list))

\* the disclaimer rule does not look for "notice"
clause_issues_ignoring_notice(clause) ==
    LET clause_text == lower(get(clause, "clause", ""))
    IN  (IF any_in(<<"reasonable", "satisfactory", "appropriate">>, clause_text)
         THEN <<"Vague warranty terms found - consider more specific language">>
         ELSE << >>)
        \o
        (IF contains(clause_text, "disclaim")
         THEN <<"Warranty disclaimer may lack proper notice requirements">>
         ELSE << >>)

\* the disclaimer rule is applied before the vague-terms rule
clause_issues_notice_first(clause) ==
    LET clause_text == lower(get(clause, "clause", ""))
    IN  (IF contains(clause_text, "disclaim") /\ ~contains(clause_text, "notice")
         THEN <<"Warranty disclaimer may lack proper notice requirements">>
         ELSE << >>)
        \o
        (IF any_in(<<"reasonable", "satisfactory", "appropriate">>, clause_text)
         THEN <<"Vague warranty terms found - consider more specific language">>
         ELSE << >>)

\* grantie.py: the issues one flagged clause adds to compliance_issues
clause_issues(clause) ==
    LET clause_text == lower(get(clause, "clause", ""))
    IN  (IF any_in(<<"reasonable", "satisfactory", "appropriate">>, clause_text)
         THEN <<"Vague warranty terms found - consider more specific language">>
         ELSE << >>)
        \o
        (IF contains(clause_text, "disclaim") /\ ~contains(clause_text, "notice")
         THEN <<"Warranty disclaimer may lack proper notice requirements">>
         ELSE << >>)

\* grantie.py: the recommendations one flagged clause adds
clause_recommendations(clause) ==
    LET clause_text == lower(get(clause, "clause", ""))
    IN  IF contains(clause_text, "warranty")
           /\ ~any_in(<<"days", "months", "years", "period">>, clause_text)
        THEN <<"Consider adding specific time limits for warranty coverage">>
        ELSE << >>

\* the for loop of check_warranty_compliance over warranty_clauses
RECURSIVE all_issues(_)
all_issues(flagged) ==
    IF Len(flagged) = 0 THEN << >>
    ELSE clause_issues(Head(flagged)) \o all_issues(Tail(flagged))

RECURSIVE all_recommendations(_)
all_recommendations(flagged) ==
    IF Len(flagged) = 0 THEN << >>
    ELSE clause_recommendations(Head(flagged)) \o all_recommendations(Tail(flagged))

\* off by one: the addendum is appended from 3 flagged clauses on
general_recommendations_from_three(flagged) ==
    IF Len(flagged) >= 3
    THEN <<"Multiple warranty clauses found - ensure consistency across all terms">>
    ELSE << >>

\* if len(warranty_clauses) > 3: recommendations.append(...)
general_recommendations(flagged) ==
    IF Len(flagged) > 3
    THEN <<"Multiple warranty clauses found - ensure consistency across all terms">>
    ELSE << >>

\* total_issues counts the recommendations instead of the issues
check_warranty_compliance_counting_recommendations(list) ==
    LET flagged == warranty_clauses(list)
    IN  IF Len(flagged) = 0
        THEN [compliance_issues |-> << >>,
              recommendations |-> <<"Consider adding clear warranty terms for transparency">>,
              total_issues |-> 0]
        ELSE [compliance_issues |-> all_issues(flagged),
              recommendations |-> all_recommendations(flagged)
                                      \o general_recommendations(flagged),
              total_issues |-> Len(all_recommendations(flagged))]

\* the addendum is decided by the number of all records, flagged or not
check_warranty_compliance_counting_all_records(list) ==
    LET flagged == warranty_clauses(list)
    IN  IF Len(flagged) = 0
        THEN [compliance_issues |-> << >>,
              recommendations |-> <<"Consider adding clear warranty terms for transparency">>,
              total_issues |-> 0]
        ELSE [compliance_issues |-> all_issues(flagged),
              recommendations |->
                  all_recommendations(flagged)
                      \o (IF Len(list) > 3
                          THEN <<"Multiple warranty clauses found - ensure consistency across all terms">>
                          ELSE << >>),
              total_issues |-> Len(all_issues(flagged))]

check_warranty_compliance(list) ==
    LET flagged == warranty_clauses(list)
    IN  IF Len(flagged) = 0
        THEN [compliance_issues |-> << >>,
              recommendations |-> <<"Consider adding clear warranty terms for transparency">>,
              total_issues |-> 0]
        ELSE [compliance_issues |-> all_issues(flagged),
              recommendations |-> all_recommendations(flagged)
                                      \o general_recommendations(flagged),
              total_issues |-> Len(all_issues(flagged))]

\* main_free.py: the issue one flagged clause adds
simple_clause_issues(clause) ==
    LET text == lower(get(clause, "clause", ""))
    IN  IF contains(text, "disclaim") /\ ~contains(text, "notice")
        THEN <<"Potential issue: Disclaimer without proper notice">>
        ELSE << >>

RECURSIVE simple_all_issues(_)
simple_all_issues(flagged) ==
    IF Len(flagged) = 0 THEN << >>
    ELSE simple_clause_issues(Head(flagged)) \o simple_all_issues(Tail(flagged))

simple_compliance_check(list) ==
    LET flagged == warranty_clauses(list)
        issues == simple_all_issues(flagged)
    IN  [compliance_issues |-> issues,
         recommendations |->
            IF Len(flagged) = 0
            THEN <<"No warranty clauses detected. Consider if warranty terms are needed.">>
            ELSE <<"Found " \o ToString(Len(flagged)) \o " warranty-related clauses">>,
         total_issues |-> Len(issues)]

\* grantie.py 46-54: the risk level by keyword precedence
high_risk_keywords == <<"disclaim", "as-is", "no warranty", "liability", "limitation">>
medium_risk_keywords == <<"limited warranty", "conditional", "subject to">>

\* the Medium keywords are tested before the High keywords
risk_level_medium_first(text) ==
    IF any_in(medium_risk_keywords, lower(text)) THEN "Medium"
    ELSE IF any_in(high_risk_keywords, lower(text)) THEN "High"
    ELSE "Low"

risk_level(text) ==
    IF any_in(high_risk_keywords, lower(text)) THEN "High"
    ELSE IF any_in(medium_risk_keywords, lower(text)) THEN "Medium"
    ELSE "Low"

\* the except branch derives the summary from the keywords as well
analyze_warranties_and_guarantees_keywords_on_failure(text, outcome) ==
    [analysis |-> IF outcome = "ok" THEN completion_content
                  ELSE "Error analyzing warranties and guarantees: " \o str_e(outcome),
     summary |-> [has_warranties |->
                     any_in(<<"warrant", "warranty", "guaranteed">>, lower(text)),
                  has_guarantees |->
                     any_in(<<"guarantee", "assure", "promise">>, lower(text)),
                  risk_level |-> risk_level(text)]]

\* analyze_warranties_and_guarantees: one completion call over the text; the
\* summary is computed from keywords when the call succeeded
analyze_warranties_and_guarantees(text, outcome) ==
    IF outcome = "ok"
    THEN [analysis |-> completion_content,
          summary |-> [has_warranties |->
                          any_in(<<"warrant", "warranty", "guaranteed">>, lower(text)),
                       has_guarantees |->
                          any_in(<<"guarantee", "assure", "promise">>, lower(text)),
                       risk_level |-> risk_level(text)]]
    ELSE [analysis |-> "Error analyzing warranties and guarantees: " \o str_e(outcome),
          summary |-> [has_warranties |-> FALSE,
                       has_guarantees |-> FALSE,
                       risk_level |-> "Unknown"]]

\* summarizer.py 29-40: one completion call; every exception becomes text
summarize_text(outcome) ==
    IF outcome = "ok" THEN completion_content
    ELSE "Error generating summary: " \o str_e(outcome)

\* text.split(sep) for a separator of one character
RECURSIVE split(_, _)
split(text, sep) ==
    LET at == { k \in 1..Len(text) : SubSeq(text, k, k) = sep }
    IN  IF at = { } THEN <<text>>
        ELSE LET first == CHOOSE k \in at : \A j \in at : k <= j
             IN  <<SubSeq(text, 1, first - 1)>>
                     \o split(SubSeq(text, first + 1, Len(text)), sep)

\* [s.strip() for s in parts if s.strip()]
RECURSIVE stripped_nonempty(_)
stripped_nonempty(parts) ==
    IF Len(parts) = 0 THEN << >>
    ELSE (IF strip(Head(parts)) = "" THEN << >> ELSE <<strip(Head(parts))>>)
            \o stripped_nonempty(Tail(parts))

\* sep.join(parts)
RECURSIVE join_with(_, _)
join_with(sep, parts) ==
    IF Len(parts) = 0 THEN ""
    ELSE IF Len(parts) = 1 THEN parts[1]
    ELSE parts[1] \o sep \o join_with(sep, Tail(parts))

\* the number of sentences above which simple_summarize keeps the first
\* three and the last two, and the number it keeps otherwise
long_document_sentences == 10
leading_sentences == 3
trailing_sentences == 2
short_document_sentences == 5

\* main_free.py 23-33
simple_summarize(text) ==
    LET sentences == split(text, ".")
        n == Len(sentences)
        summary_sentences ==
            IF n > long_document_sentences
            THEN SubSeq(sentences, 1, leading_sentences) \o <<"...">>
                    \o SubSeq(sentences, n - trailing_sentences + 1, n)
            ELSE SubSeq(sentences, 1, IF n < short_document_sentences
                                      THEN n ELSE short_document_sentences)
    IN  "Document Summary (Basic):\n\n"
            \o join_with(". ", stripped_nonempty(summary_sentences))
            \o "\n\nNote: This is a basic summary. For detailed AI analysis, please add credits to your OpenAI account."

\* main_free.py 53-60: the risk level of the rule-based analysis
high_risk_terms == <<"disclaim", "as-is", "no warranty", "limitation of liability">>
medium_risk_terms == <<"limited warranty", "conditional">>

simple_risk_level(text_lower) ==
    IF any_in(high_risk_terms, text_lower) THEN "High"
    ELSE IF any_in(medium_risk_terms, text_lower) THEN "Medium"
    ELSE "Low"

simple_warranty_analysis(text) ==
    LET text_lower == lower(text)
        warranties_found == IF contains(text_lower, "warrant") THEN 1 ELSE 0
        guarantees_found == IF contains(text_lower, "guarantee") THEN 1 ELSE 0
        disclaimers == (IF contains(text_lower, "disclaim") THEN 1 ELSE 0)
                         + (IF contains(text_lower, "as-is") THEN 1 ELSE 0)
    IN  [analysis |-> "Warranty Analysis (Rule-based): Warranties Found: "
                         \o ToString(warranties_found) \o " clauses Guarantees Found: "
                         \o ToString(guarantees_found) \o " clauses Disclaimers Found: "
                         \o ToString(disclaimers) \o " items Risk Level: "
                         \o simple_risk_level(text_lower),
         summary |-> [has_warranties |-> warranties_found > 0,
                      has_guarantees |-> guarantees_found > 0,
                      risk_level |-> simple_risk_level(text_lower)]]

---------------------------------------------------------------------------
(* Inputs: the paragraphs an uploaded document is made of.                 *)

Paragraphs ==
    { "  ",                                                  \* blank paragraph
      " Pay taxes ",                                         \* 9 after strip()
      "Pay on due",                                          \* 10
      "Buyer shall pay now.",                                \* 20
      "Seller DISCLAIMS all WARRANTIES; sold AS-IS." }       \* 44, flagged

RECURSIVE SeqsUpTo(_, _)
SeqsUpTo(S, n) ==
    IF n = 0 THEN { << >> }
    ELSE LET shorter == SeqsUpTo(S, n - 1)
         IN  shorter \cup { Append(q, x) : q \in { r \in shorter : Len(r) = n - 1 }, x \in S }

Documents ==
    { [parseable |-> TRUE, paragraphs |-> q] : q \in SeqsUpTo(Paragraphs, MaxParas) }
        \cup { [parseable |-> FALSE, paragraphs |-> << >>] }

\* the records a /grantie/compliance/ payload is made of
ClauseRecords ==
    { [clause |-> "Seller DISCLAIMS all reasonable warranties", has_warranty_terms |-> TRUE],
      [clause |-> "We disclaim warranty upon notice", has_warranty_terms |-> TRUE],
      [clause |-> "Appropriate warranty for 90 days", has_warranty_terms |-> TRUE],
      [clause |-> "We disclaim everything", has_warranty_terms |-> FALSE],
      [clause |-> "Seller DISCLAIMS all reasonable warranties"],
      [has_warranty_terms |-> TRUE],
      [json_string |-> "Seller disclaims all warranties"] }  \* a JSON string, no object

\* the uploads of /grantie/full-analysis/
FullAnalysisDocuments ==
    { [parseable |-> TRUE, paragraphs |-> q] : q \in SeqsUpTo(Paragraphs, MaxFullParas) }
        \cup { [parseable |-> FALSE, paragraphs |-> << >>] }

EmptyPayload == << >>   \* the JSON object {}

CompliancePayloads ==
    { [clauses |-> q] : q \in SeqsUpTo(ClauseRecords, MaxClauses) } \cup { EmptyPayload }

\* the texts of a /grantie/analyze/ payload
AnalysisTexts ==
    { "",
      "Goods are sold AS-IS",
      "A limited warranty applies",
      "Limited warranty; seller disclaims the rest",
      "Payment is due on delivery",
      "Liability is capped",
      "Subject to approval",
      "We guarantee and warrant the goods",
      "Seller disclaims all warranties; goods sold as-is." }

AnalysisPayloads == { [text |-> t] : t \in AnalysisTexts } \cup { EmptyPayload }

\* the texts of a /summarize/ payload: none, two sentences, eleven sentences
SummaryTexts ==
    { "",
      "Buyer shall pay. Seller shall deliver.",
      "One. Two. Three. Four. Five. Six. Seven. Eight. Nine. Ten. Eleven." }

SummaryPayloads == { [text |-> t] : t \in SummaryTexts } \cup { EmptyPayload }

\* frontend/app.py 51: play_audio sends text[:500]
tts_text_limit == 500

\* text[:n]
truncated(text, n) == IF Len(text) <= n THEN text ELSE SubSeq(text, 1, n)

RECURSIVE repeat(_, _)
repeat(s, n) ==
    IF n = 0 THEN ""
    ELSE IF n % 2 = 0 THEN LET half == repeat(s, n \div 2) IN half \o half
    ELSE s \o repeat(s, n - 1)

\* the texts a client may want read aloud: none, a short one, one of exactly
\* the limit and one that is one character longer
SpeakTexts ==
    { "",
      "Either party may terminate with 30 days' notice.",
      repeat("a", tts_text_limit),
      repeat("a", tts_text_limit) \o "b" }

\* the answers of the ElevenLabs endpoint to requests.post
TtsOutcomes == {"200", "401", "ConnectionError"}

NoResponse == [none |-> TRUE]

---------------------------------------------------------------------------
Init ==
    /\ mode \in {"ai", "free"}
    /\ api_key \in BOOLEAN
    /\ pc = "idle"
    /\ endpoint = ""
    /\ upload = [parseable |-> FALSE, paragraphs |-> << >>]
    /\ tmp_file = "none"
    /\ tmp_path = FALSE
    /\ clauses = << >>
    /\ i = 0
    /\ analysis = ""
    /\ results = << >>
    /\ exc = ""
    /\ ret = << >>
    /\ inflight = NoCall
    /\ calls = << >>
    /\ payload = << >>
    /\ response = NoResponse
    /\ triaged = { }
    /\ client = ""
    /\ elevenlabs_key = FALSE
    /\ tts_requests = << >>

---------------------------------------------------------------------------
(* POST /analyze/ : main.py 23-31, main_free.py 105-110                    *)

PostAnalyze ==
    /\ pc = "idle"
    /\ \E doc \in Documents : upload' = doc
    /\ endpoint' = "/analyze/"
    /\ pc' = "save"
    /\ UNCHANGED <<tts_vars, triaged, mode, api_key, tmp_file, tmp_path, clauses, i, analysis, results,
                   exc, ret, inflight, calls, payload, response>>

(* analyze_uploaded_file, step by step *)

\* with tempfile.NamedTemporaryFile(delete=False, ...) as tmp: tmp.write(...);
\* tmp_path = tmp.name.  The file is created and written, or creating it
\* fails (no file), or writing it fails (the file stays, tmp_path unbound).
SaveTemporaryFile ==
    /\ pc = "save"
    /\ \E outcome \in {"saved", "create_failed", "write_failed"} :
          CASE outcome = "saved" ->
                  /\ tmp_file' = "exists" /\ tmp_path' = TRUE
                  /\ pc' = "extract" /\ exc' = exc
            [] outcome = "create_failed" ->
                  /\ tmp_file' = "none" /\ tmp_path' = FALSE
                  /\ pc' = "except" /\ exc' = "No space left on device"
            [] OTHER ->
                  /\ tmp_file' = "exists" /\ tmp_path' = FALSE
                  /\ pc' = "except" /\ exc' = "No space left on device"
    /\ UNCHANGED <<tts_vars, triaged, mode, api_key, endpoint, upload, clauses, i, analysis, results,
                   ret, inflight, calls, payload, response>>

\* clauses = extract_clauses_from_docx(tmp_path), Document() raising
ExtractFails ==
    /\ pc = "extract"
    /\ ~upload.parseable
    /\ exc' = "Failed to read document: " \o "File is not a zip file"
    /\ pc' = "except"
    /\ UNCHANGED <<tts_vars, triaged, mode, api_key, endpoint, upload, tmp_file, tmp_path, clauses, i,
                   analysis, results, ret, inflight, calls, payload, response>>

\* clauses = extract_clauses_from_docx(tmp_path); if not clauses: raise
ExtractNothing ==
    /\ pc = "extract"
    /\ upload.parseable
    /\ extract_clauses_from_docx(upload.paragraphs) = << >>
    /\ clauses' = << >>
    /\ exc' = "No readable content found in the document"
    /\ pc' = "except"
    /\ UNCHANGED <<tts_vars, triaged, mode, api_key, endpoint, upload, tmp_file, tmp_path, i,
                   analysis, results, ret, inflight, calls, payload, response>>

\* clauses = extract_clauses_from_docx(tmp_path); results = []
Extract ==
    /\ pc = "extract"
    /\ upload.parseable
    /\ extract_clauses_from_docx(upload.paragraphs) # << >>
    /\ clauses' = extract_clauses_from_docx(upload.paragraphs)
    /\ results' = << >>
    /\ i' = 1
    /\ pc' = "loop"
    /\ UNCHANGED <<tts_vars, triaged, mode, api_key, endpoint, upload, tmp_file, tmp_path,
                   analysis, exc, ret, inflight, calls, payload, response>>

\* if len(clause.strip()) < N: continue
SkipShortClause ==
    /\ pc = "loop"
    /\ i <= Len(clauses)
    /\ too_short(clauses[i])
    /\ i' = i + 1
    /\ UNCHANGED <<tts_vars, triaged, mode, api_key, pc, endpoint, upload, tmp_file, tmp_path, clauses,
                   analysis, results, exc, ret, inflight, calls, payload, response>>

\* analyze_clause_with_openai(clause): no API key, so it raises
ExplainRaises ==
    /\ pc = "loop"
    /\ i <= Len(clauses)
    /\ ~too_short(clauses[i])
    /\ mode = "ai"
    /\ ~api_key
    /\ exc' = "OpenAI API key not configured. Please check your .env file."
    /\ pc' = "except"
    /\ UNCHANGED <<tts_vars, triaged, mode, api_key, endpoint, upload, tmp_file, tmp_path, clauses, i,
                   analysis, results, ret, inflight, calls, payload, response>>

\* analyze_clause_with_openai(clause): openai.ChatCompletion.create is called
ExplainCall ==
    /\ pc = "loop"
    /\ i <= Len(clauses)
    /\ ~too_short(clauses[i])
    /\ mode = "ai"
    /\ api_key
    /\ inflight' = inflight \cup { <<"analyze_clause_with_openai", i>> }
    /\ pc' = "explain"
    /\ UNCHANGED <<tts_vars, triaged, mode, api_key, endpoint, upload, tmp_file, tmp_path, clauses, i,
                   analysis, results, exc, ret, calls, payload, response>>

\* the explain call is not waited for: it stays in flight while the loop
\* body goes on
ExplainReturn_leaving_call_in_flight ==
    /\ pc = "explain"
    /\ \E outcome \in ServiceOutcomes :
          /\ analysis' = explain_result(outcome)
          /\ calls' = Append(calls, <<"analyze_clause_with_openai", i, outcome>>)
    /\ pc' = "triage"
    /\ UNCHANGED <<tts_vars, triaged, mode, api_key, endpoint, upload, tmp_file, tmp_path, clauses, i,
                   results, exc, ret, payload, response, inflight>>

\* the service answers or raises; every exception becomes the returned text
ExplainReturn ==
    /\ pc = "explain"
    /\ \E outcome \in ServiceOutcomes :
          /\ analysis' = explain_result(outcome)
          /\ calls' = Append(calls, <<"analyze_clause_with_openai", i, outcome>>)
    /\ inflight' = inflight \ { <<"analyze_clause_with_openai", i>> }
    /\ pc' = "triage"
    /\ UNCHANGED <<tts_vars, triaged, mode, api_key, endpoint, upload, tmp_file, tmp_path, clauses, i,
                   results, exc, ret, payload, response>>

\* analysis = analyze_clause_simple(clause)
ExplainSimple ==
    /\ pc = "loop"
    /\ i <= Len(clauses)
    /\ ~too_short(clauses[i])
    /\ mode = "free"
    /\ analysis' = analyze_clause_simple(clauses[i])
    /\ pc' = "triage"
    /\ UNCHANGED <<tts_vars, triaged, mode, api_key, endpoint, upload, tmp_file, tmp_path, clauses, i,
                   results, exc, ret, inflight, calls, payload, response>>

\* has_warranty_terms is False: results.append(result)
AppendPlain ==
    /\ pc = "triage"
    /\ triaged' = triaged \cup {i}
    /\ ~has_warranty_terms(clauses[i])
    /\ results' = Append(results, plain_record(clauses[i], analysis))
    /\ i' = i + 1
    /\ pc' = "loop"
    /\ UNCHANGED <<tts_vars, mode, api_key, endpoint, upload, tmp_file, tmp_path, clauses,
                   analysis, exc, ret, inflight, calls, payload, response>>

\* analyze_clause_for_grantie is entered before has_warranty_terms is computed
GrantieCall_before_triage ==
    /\ pc = "triage"
    /\ has_warranty_terms(clauses[i])
    /\ mode = "ai"
    /\ IF api_key
       THEN /\ inflight' = inflight \cup { <<"analyze_clause_for_grantie", i>> }
            /\ pc' = "grantie"
            /\ UNCHANGED <<results, i>>
       ELSE /\ results' = Append(results,
                 grantie_record(clauses[i], analysis, "Error: OpenAI API key not configured."))
            /\ i' = i + 1
            /\ pc' = "loop"
            /\ UNCHANGED inflight
    /\ UNCHANGED <<tts_vars, triaged, mode, api_key, endpoint, upload, tmp_file, tmp_path, clauses,
                   analysis, exc, ret, calls, payload, response>>

\* has_warranty_terms is True: analyze_clause_for_grantie(clause) is entered;
\* without an API key it returns its error text at once, otherwise it calls
\* the service
GrantieCall ==
    /\ pc = "triage"
    /\ triaged' = triaged \cup {i}
    /\ has_warranty_terms(clauses[i])
    /\ mode = "ai"
    /\ IF api_key
       THEN /\ inflight' = inflight \cup { <<"analyze_clause_for_grantie", i>> }
            /\ pc' = "grantie"
            /\ UNCHANGED <<results, i>>
       ELSE /\ results' = Append(results,
                 grantie_record(clauses[i], analysis, "Error: OpenAI API key not configured."))
            /\ i' = i + 1
            /\ pc' = "loop"
            /\ UNCHANGED inflight
    /\ UNCHANGED <<tts_vars, mode, api_key, endpoint, upload, tmp_file, tmp_path, clauses,
                   analysis, exc, ret, calls, payload, response>>

\* a failed warranty-analysis call is made a second time
GrantieReturn_retrying_once ==
    /\ pc = "grantie"
    /\ \E outcome \in ServiceOutcomes :
          /\ results' = Append(results,
                 grantie_record(clauses[i], analysis, grantie_result(outcome)))
          /\ calls' = IF outcome = "ok"
                      THEN Append(calls, <<"analyze_clause_for_grantie", i, outcome>>)
                      ELSE calls \o << <<"analyze_clause_for_grantie", i, outcome>>,
                                       <<"analyze_clause_for_grantie", i, outcome>> >>
    /\ inflight' = inflight \ { <<"analyze_clause_for_grantie", i>> }
    /\ i' = i + 1
    /\ pc' = "loop"
    /\ UNCHANGED <<tts_vars, triaged, mode, api_key, endpoint, upload, tmp_file, tmp_path, clauses,
                   analysis, exc, ret, payload, response>>

\* result["grantie_analysis"] = analyze_clause_for_grantie(clause); append
GrantieReturn ==
    /\ pc = "grantie"
    /\ \E outcome \in ServiceOutcomes :
          /\ results' = Append(results,
                 grantie_record(clauses[i], analysis, grantie_result(outcome)))
          /\ calls' = Append(calls, <<"analyze_clause_for_grantie", i, outcome>>)
    /\ inflight' = inflight \ { <<"analyze_clause_for_grantie", i>> }
    /\ i' = i + 1
    /\ pc' = "loop"
    /\ UNCHANGED <<tts_vars, triaged, mode, api_key, endpoint, upload, tmp_file, tmp_path, clauses,
                   analysis, exc, ret, payload, response>>

\* result["grantie_analysis"] = analyze_clause_for_grantie_simple(clause); append
GrantieSimple ==
    /\ pc = "triage"
    /\ triaged' = triaged \cup {i}
    /\ has_warranty_terms(clauses[i])
    /\ mode = "free"
    /\ results' = Append(results,
           grantie_record(clauses[i], analysis, analyze_clause_for_grantie_simple(clauses[i])))
    /\ i' = i + 1
    /\ pc' = "loop"
    /\ UNCHANGED <<tts_vars, mode, api_key, endpoint, upload, tmp_file, tmp_path, clauses,
                   analysis, exc, ret, inflight, calls, payload, response>>

\* after the loop: try: os.unlink(tmp_path) except: pass; return results
CleanupAndReturn ==
    /\ pc = "loop"
    /\ i > Len(clauses)
    /\ \E unlinked \in BOOLEAN :
          tmp_file' = IF unlinked THEN "deleted" ELSE tmp_file
    /\ ret' = results
    /\ pc' = "returned"
    /\ UNCHANGED <<tts_vars, triaged, mode, api_key, endpoint, upload, tmp_path, clauses, i,
                   analysis, results, exc, inflight, calls, payload, response>>

\* except Exception as e: unlink tmp_path if it is bound; return the error list
ExceptAndReturn ==
    /\ pc = "except"
    /\ \E unlinked \in BOOLEAN :
          tmp_file' = IF tmp_path /\ unlinked THEN "deleted" ELSE tmp_file
    /\ ret' = error_result(exc)
    /\ pc' = "returned"
    /\ UNCHANGED <<tts_vars, triaged, mode, api_key, endpoint, upload, tmp_path, clauses, i,
                   analysis, results, exc, inflight, calls, payload, response>>

\* return {"clauses": result}
AnalyzeRespond ==
    /\ pc = "returned"
    /\ endpoint = "/analyze/"
    /\ response' = [clauses |-> ret]
    /\ pc' = "done"
    /\ UNCHANGED <<tts_vars, triaged, mode, api_key, endpoint, upload, tmp_file, tmp_path, clauses, i,
                   analysis, results, exc, ret, inflight, calls, payload>>

---------------------------------------------------------------------------
(* POST /grantie/full-analysis/ : main.py 66-90, main_free.py 139-161      *)

\* file.filename of the upload
filename == "contract.docx"

\* [clause["clause"] for clause in clauses_result]
clause_texts(list) == [k \in 1..Len(list) |-> list[k].clause]

\* content = await file.read(); analyze_uploaded_file(file.filename, content)
PostFullAnalysis ==
    /\ pc = "idle"
    /\ \E doc \in FullAnalysisDocuments : upload' = doc
    /\ endpoint' = "/grantie/full-analysis/"
    /\ pc' = "save"
    /\ UNCHANGED <<tts_vars, triaged, mode, api_key, tmp_file, tmp_path, clauses, i, analysis, results,
                   exc, ret, inflight, calls, payload, response>>

\* main.py: whatever list analyze_uploaded_file returned, its clause texts are
\* joined, analyze_warranties_and_guarantees makes its completion call over
\* the joined text (no API key is checked), check_warranty_compliance reads
\* the list, and all of it is returned
FullAnalysisRespond ==
    /\ pc = "returned"
    /\ endpoint = "/grantie/full-analysis/"
    /\ mode = "ai"
    /\ \E outcome \in (IF api_key THEN ServiceOutcomes ELSE {"AuthenticationError"}) :
          /\ response' =
                [clauses |-> ret,
                 warranty_analysis |->
                     analyze_warranties_and_guarantees(join(clause_texts(ret)), outcome),
                 compliance |-> check_warranty_compliance(ret),
                 filename |-> filename]
          /\ calls' = Append(calls, <<"analyze_warranties_and_guarantees", 0, outcome>>)
    /\ pc' = "done"
    /\ UNCHANGED <<tts_vars, triaged, mode, api_key, endpoint, upload, tmp_file, tmp_path, clauses, i,
                   analysis, results, exc, ret, inflight, payload>>

\* main_free.py: the same with simple_warranty_analysis and
\* simple_compliance_check
FullAnalysisRespondSimple ==
    /\ pc = "returned"
    /\ endpoint = "/grantie/full-analysis/"
    /\ mode = "free"
    /\ response' =
          [clauses |-> ret,
           warranty_analysis |-> simple_warranty_analysis(join(clause_texts(ret))),
           compliance |-> simple_compliance_check(ret),
           filename |-> filename]
    /\ pc' = "done"
    /\ UNCHANGED <<tts_vars, triaged, mode, api_key, endpoint, upload, tmp_file, tmp_path, clauses, i,
                   analysis, results, exc, ret, inflight, calls, payload>>

---------------------------------------------------------------------------
(* POST /grantie/compliance/ : main.py 54-64, main_free.py 129-137         *)

PostCompliance ==
    /\ pc = "idle"
    /\ \E body \in CompliancePayloads : payload' = body
    /\ endpoint' = "/grantie/compliance/"
    /\ pc' = "compliance"
    /\ UNCHANGED <<tts_vars, triaged, mode, api_key, upload, tmp_file, tmp_path, clauses, i, analysis,
                   results, exc, ret, inflight, calls, response>>

\* the empty list is handed to the checker instead of being rejected
ComplianceRejected_checking_anyway ==
    /\ pc = "compliance"
    /\ Len(get(payload, "clauses", << >>)) = 0
    /\ response' = [compliance |->
                       IF mode = "ai" THEN check_warranty_compliance(<< >>)
                       ELSE simple_compliance_check(<< >>)]
    /\ pc' = "done"
    /\ UNCHANGED <<tts_vars, triaged, mode, api_key, endpoint, upload, tmp_file, tmp_path, clauses, i,
                   analysis, results, exc, ret, inflight, calls, payload>>

\* clauses = payload.get("clauses", []); if not clauses: return the error
ComplianceRejected ==
    /\ pc = "compliance"
    /\ Len(get(payload, "clauses", << >>)) = 0
    /\ response' = [error |-> "No clauses provided for compliance check"]
    /\ pc' = "done"
    /\ UNCHANGED <<tts_vars, triaged, mode, api_key, endpoint, upload, tmp_file, tmp_path, clauses, i,
                   analysis, results, exc, ret, inflight, calls, payload>>

\* return {"compliance": check_warranty_compliance(clauses)}, or with
\* simple_compliance_check in the keyword-only application
CheckCompliance ==
    /\ pc = "compliance"
    /\ Len(get(payload, "clauses", << >>)) > 0
    /\ \A k \in 1..Len(payload.clauses) : is_dict(payload.clauses[k])
    /\ response' = [compliance |->
                       IF mode = "ai" THEN check_warranty_compliance(payload.clauses)
                       ELSE simple_compliance_check(payload.clauses)]
    /\ pc' = "done"
    /\ UNCHANGED <<tts_vars, triaged, mode, api_key, endpoint, upload, tmp_file, tmp_path, clauses, i,
                   analysis, results, exc, ret, inflight, calls, payload>>

\* clause.get(...) on an element that is no dict raises AttributeError in the
\* list comprehension; the endpoint has no handler, the exception escapes
ComplianceRaises ==
    /\ pc = "compliance"
    /\ Len(get(payload, "clauses", << >>)) > 0
    /\ \E k \in 1..Len(payload.clauses) : ~is_dict(payload.clauses[k])
    /\ response' = [exception |-> "AttributeError: 'str' object has no attribute 'get'"]
    /\ pc' = "done"
    /\ UNCHANGED <<tts_vars, triaged, mode, api_key, endpoint, upload, tmp_file, tmp_path,
                   clauses, i, analysis, results, exc, ret, inflight, calls, payload>>

(* POST /grantie/analyze/ : main.py 42-52, main_free.py 119-127            *)

PostGrantieAnalyze ==
    /\ pc = "idle"
    /\ \E body \in AnalysisPayloads : payload' = body
    /\ endpoint' = "/grantie/analyze/"
    /\ pc' = "grantie_analyze"
    /\ UNCHANGED <<tts_vars, triaged, mode, api_key, upload, tmp_file, tmp_path, clauses, i, analysis,
                   results, exc, ret, inflight, calls, response>>

\* text = payload.get("text", ""); if not text: return the error
GrantieAnalyzeRejected ==
    /\ pc = "grantie_analyze"
    /\ get(payload, "text", "") = ""
    /\ response' = [error |-> "No text provided for analysis"]
    /\ pc' = "done"
    /\ UNCHANGED <<tts_vars, triaged, mode, api_key, endpoint, upload, tmp_file, tmp_path, clauses, i,
                   analysis, results, exc, ret, inflight, calls, payload>>

\* main.py: result = analyze_warranties_and_guarantees(text).  The function
\* checks no API key itself: without one the client library raises
\* AuthenticationError when the call is made.
GrantieAnalyze ==
    /\ pc = "grantie_analyze"
    /\ mode = "ai"
    /\ get(payload, "text", "") # ""
    /\ \E outcome \in (IF api_key THEN ServiceOutcomes ELSE {"AuthenticationError"}) :
          /\ response' = [grantie_analysis |->
                             analyze_warranties_and_guarantees(payload.text, outcome)]
          /\ calls' = Append(calls, <<"analyze_warranties_and_guarantees", 0, outcome>>)
    /\ pc' = "done"
    /\ UNCHANGED <<tts_vars, triaged, mode, api_key, endpoint, upload, tmp_file, tmp_path, clauses, i,
                   analysis, results, exc, ret, inflight, payload>>

\* main_free.py: result = simple_warranty_analysis(text)
GrantieAnalyzeSimple ==
    /\ pc = "grantie_analyze"
    /\ mode = "free"
    /\ get(payload, "text", "") # ""
    /\ response' = [grantie_analysis |-> simple_warranty_analysis(payload.text)]
    /\ pc' = "done"
    /\ UNCHANGED <<tts_vars, triaged, mode, api_key, endpoint, upload, tmp_file, tmp_path, clauses, i,
                   analysis, results, exc, ret, inflight, calls, payload>>

---------------------------------------------------------------------------
(* POST /summarize/ : main.py 33-40, main_free.py 112-117                  *)

PostSummarize ==
    /\ pc = "idle"
    /\ \E body \in SummaryPayloads : payload' = body
    /\ endpoint' = "/summarize/"
    /\ pc' = "summarize"
    /\ UNCHANGED <<tts_vars, triaged, mode, api_key, upload, tmp_file, tmp_path, clauses, i, analysis,
                   results, exc, ret, inflight, calls, response>>

\* main.py: summary = summarize_text(payload.get("text", "")).  The function
\* checks neither the text nor the API key: without a key the client library
\* raises AuthenticationError when the call is made.
Summarize ==
    /\ pc = "summarize"
    /\ mode = "ai"
    /\ \E outcome \in (IF api_key THEN ServiceOutcomes ELSE {"AuthenticationError"}) :
          /\ response' = [summary |-> summarize_text(outcome)]
          /\ calls' = Append(calls, <<"summarize_text", 0, outcome>>)
    /\ pc' = "done"
    /\ UNCHANGED <<tts_vars, triaged, mode, api_key, endpoint, upload, tmp_file, tmp_path, clauses, i,
                   analysis, results, exc, ret, inflight, payload>>

\* main_free.py: summary = simple_summarize(payload.get("text", ""))
SummarizeSimple ==
    /\ pc = "summarize"
    /\ mode = "free"
    /\ response' = [summary |-> simple_summarize(get(payload, "text", ""))]
    /\ pc' = "done"
    /\ UNCHANGED <<tts_vars, triaged, mode, api_key, endpoint, upload, tmp_file, tmp_path, clauses, i,
                   analysis, results, exc, ret, inflight, calls, payload>>

---------------------------------------------------------------------------
(* POST /speak/ : main.py 92-114, main_free.py 163-166, tts.py 15-45       *)

\* the request comes from the frontend's play_audio, which cuts the text to
\* its first 500 characters, or from any other client, which sends what it
\* likes.  ELEVENLABS_API_KEY is read from the environment at import; it is
\* drawn here, where it is first of any effect.
PostSpeak ==
    /\ pc = "idle"
    /\ \E sender \in {"frontend", "direct"}, text \in SpeakTexts, key \in BOOLEAN :
          /\ client' = sender
          /\ elevenlabs_key' = key
          /\ payload' \in IF sender = "frontend"
                           THEN { [text |-> truncated(text, tts_text_limit)] }
                           ELSE { [text |-> text], EmptyPayload }
    /\ endpoint' = "/speak/"
    /\ pc' = "speak"
    /\ UNCHANGED <<tts_requests, triaged, mode, api_key, upload, tmp_file, tmp_path, clauses, i,
                   analysis, results, exc, ret, inflight, calls, response>>

\* main_free.py: the endpoint is disabled
SpeakDisabled ==
    /\ pc = "speak"
    /\ mode = "free"
    /\ response' = [error |-> "Text-to-speech requires ElevenLabs API. Please add TTS credits to enable this feature."]
    /\ pc' = "done"
    /\ UNCHANGED <<tts_vars, triaged, mode, api_key, endpoint, upload, tmp_file, tmp_path, clauses, i,
                   analysis, results, exc, ret, inflight, calls, payload>>

\* text = payload.get("text", ""); if not text: return the error
SpeakRejected ==
    /\ pc = "speak"
    /\ mode = "ai"
    /\ get(payload, "text", "") = ""
    /\ response' = [error |-> "No text provided for TTS"]
    /\ pc' = "done"
    /\ UNCHANGED <<tts_vars, triaged, mode, api_key, endpoint, upload, tmp_file, tmp_path, clauses, i,
                   analysis, results, exc, ret, inflight, calls, payload>>

\* text_to_speech(text, tmp_audio.name): without the key it raises ValueError;
\* otherwise the text goes to the service as it came, and a status other
\* than 200 or a failing request raises.  The endpoint turns every exception
\* into an error response.
Speak ==
    /\ pc = "speak"
    /\ mode = "ai"
    /\ get(payload, "text", "") # ""
    /\ IF ~elevenlabs_key
       THEN /\ response' = [error |-> "TTS generation failed: "
                                         \o "Missing ELEVENLABS_API_KEY in .env"]
            /\ UNCHANGED tts_requests
       ELSE /\ tts_requests' = Append(tts_requests, payload.text)
            /\ \E outcome \in TtsOutcomes :
                  response' =
                     IF outcome = "200"
                     THEN [media_type |-> "audio/mpeg", filename |-> "speech.mp3"]
                     ELSE IF outcome = "ConnectionError"
                     THEN [error |-> "TTS generation failed: " \o "Connection error"]
                     ELSE [error |-> "TTS generation failed: " \o "TTS failed: "
                                        \o outcome \o " - " \o "Unauthorized"]
    /\ pc' = "done"
    /\ UNCHANGED <<client, elevenlabs_key, triaged, mode, api_key, endpoint, upload, tmp_file,
                   tmp_path, clauses, i, analysis, results, exc, ret, inflight, calls, payload>>

---------------------------------------------------------------------------
Next ==
    \/ PostAnalyze
    \/ SaveTemporaryFile
    \/ ExtractFails
    \/ ExtractNothing
    \/ Extract
    \/ SkipShortClause
    \/ ExplainRaises
    \/ ExplainCall
    \/ ExplainReturn
    \/ ExplainSimple
    \/ AppendPlain
    \/ GrantieCall
    \/ GrantieReturn
    \/ GrantieSimple
    \/ CleanupAndReturn
    \/ ExceptAndReturn
    \/ AnalyzeRespond
    \/ PostFullAnalysis
    \/ FullAnalysisRespond
    \/ FullAnalysisRespondSimple
    \/ PostCompliance
    \/ ComplianceRejected
    \/ CheckCompliance
    \/ ComplianceRaises
    \/ PostGrantieAnalyze
    \/ GrantieAnalyzeRejected
    \/ GrantieAnalyze
    \/ GrantieAnalyzeSimple
    \/ PostSummarize
    \/ Summarize
    \/ SummarizeSimple
    \/ PostSpeak
    \/ SpeakDisabled
    \/ SpeakRejected
    \/ Speak

Spec == Init /\ [][Next]_vars

---------------------------------------------------------------------------
(* Properties of analyze_uploaded_file.                                    *)

Returned == pc \in {"returned", "done"}

\* the upload was written to the temporary file and parsed as a document
Ingested == tmp_path /\ upload.parseable

\* the segments of the upload that survive the length filter, computed from
\* the uploaded paragraphs alone
SurvivesFilter(p) == Len(strip(p)) >= (IF mode = "ai" THEN 10 ELSE 20)

RECURSIVE StripAll(_)
StripAll(ps) == IF ps = << >> THEN << >> ELSE <<strip(Head(ps))>> \o StripAll(Tail(ps))

Surviving == StripAll(SelectSeq(upload.paragraphs, SurvivesFilter))

IsErrorResult(list) ==
    /\ Len(list) = 1
    /\ list[1].clause = "Error processing document"
    /\ ~list[1].has_warranty_terms

StartsWith(text, prefix) ==
    Len(text) >= Len(prefix) /\ SubSeq(text, 1, Len(prefix)) = prefix

(* C1: for a document with at least one segment surviving the length       *)
(* filter (upload ingested, completion service configured in the AI mode), *)
(* analyze_uploaded_file returns exactly one record per surviving segment, *)
(* none for a shorter one, in document order, with record.clause equal to  *)
(* the segment text.                                                       *)
C1_OneRecordPerSurvivingSegment ==
    (Returned /\ Ingested /\ (mode = "ai" => api_key) /\ Surviving # << >>)
        => /\ Len(ret) = Len(Surviving)
           /\ \A k \in 1..Len(ret) : ret[k].clause = Surviving[k]

C1_Witness ==
    /\ Returned /\ Ingested /\ mode = "ai" /\ api_key
    /\ upload.paragraphs = <<" Pay taxes ", "Pay on due">>
    /\ Len(ret) = 1 /\ ret[1].clause = "Pay on due"

(* C2: in every list returned by analyze_uploaded_file, normal or error,   *)
(* in both modes, a record carries the key grantie_analysis if and only if *)
(* its has_warranty_terms is true.                                         *)
C2_GrantieAnalysisIffWarrantyTerms ==
    Returned =>
        \A k \in 1..Len(ret) :
            ("grantie_analysis" \in DOMAIN ret[k]) <=> ret[k].has_warranty_terms

C2_Witness ==
    /\ Returned /\ Len(ret) = 2
    /\ ret[1].has_warranty_terms /\ "grantie_analysis" \in DOMAIN ret[1]
    /\ ~ret[2].has_warranty_terms /\ "grantie_analysis" \notin DOMAIN ret[2]

(* C3: when no clause survives extraction and length filtering, the        *)
(* pipeline aborts with the error outcome and never returns an empty list. *)
C3_NoSurvivingClauseAborts ==
    (Returned /\ Ingested /\ Surviving = << >>) => IsErrorResult(ret)

(* C4: each explain call that the service fails (authentication, rate      *)
(* limit, generic) leaves that clause's record in place with the matching  *)
(* error message as its analysis, and every surviving clause still has its *)
(* record.                                                                 *)
C4_ServiceFailureBecomesAnalysisText ==
    (Returned /\ mode = "ai" /\ exc = "") =>
        /\ Len(ret) = Len(Surviving)
        /\ \A c \in 1..Len(calls) :
              calls[c][1] = "analyze_clause_with_openai" =>
                 LET pos == Cardinality({ j \in 1..calls[c][2] :
                                            Len(clauses[j]) >= 10 })
                     rec == ret[pos]
                 IN  /\ pos \in 1..Len(ret)
                     /\ rec.clause = clauses[calls[c][2]]
                     /\ CASE calls[c][3] = "AuthenticationError" ->
                               rec.analysis =
                                 "Error: Invalid OpenAI API key. Please check your .env file."
                          [] calls[c][3] = "RateLimitError" ->
                               StartsWith(rec.analysis, "Error: OpenAI rate limit exceeded")
                          [] calls[c][3] = "APIError" ->
                               StartsWith(rec.analysis, "Error: OpenAI API error - ")
                          [] calls[c][3] = "Exception" ->
                               StartsWith(rec.analysis, "Error analyzing clause: ")
                          [] OTHER -> ~StartsWith(rec.analysis, "Error")

C4_Witness ==
    /\ Returned /\ mode = "ai" /\ Len(ret) = 2
    /\ \E c \in 1..Len(calls) :
          calls[c] = <<"analyze_clause_with_openai", 1, "AuthenticationError">>
    /\ ret[1].analysis = "Error: Invalid OpenAI API key. Please check your .env file."
    /\ ret[2].analysis = completion_content

(* C5: the aborted outcome is reached only from a failed ingestion (the    *)
(* upload cannot be stored or parsed) or from a document with no surviving *)
(* clause; once a clause has survived, no per-clause failure aborts.       *)
C5_AbortOnlyBeforeClauseStage ==
    (Returned /\ exc # "") => (~Ingested \/ Surviving = << >>)

(* C6: on every exit path of analyze_uploaded_file the temporary document  *)
(* file no longer exists when the function returns.                        *)
C6_TemporaryFileReleased ==
    Returned => tmp_file # "exists"

---------------------------------------------------------------------------
(* Properties of the compliance checker.                                   *)

ComplianceDone ==
    pc = "done" /\ endpoint = "/grantie/compliance/" /\ "compliance" \in DOMAIN response

\* the record's flag is present and true
FlagTrue(r) == "has_warranty_terms" \in DOMAIN r /\ r.has_warranty_terms

FlaggedIndices(list) == { k \in 1..Len(list) : FlagTrue(list[k]) }

Count(list, x) == Cardinality({ k \in 1..Len(list) : list[k] = x })

TextOf(r) == IF "clause" \in DOMAIN r THEN lower(r.clause) ELSE ""

NoticeIssue ==
    IF mode = "ai" THEN "Warranty disclaimer may lack proper notice requirements"
    ELSE "Potential issue: Disclaimer without proper notice"

ConsistencyRecommendation ==
    "Multiple warranty clauses found - ensure consistency across all terms"

(* C7: given a list in which no record has has_warranty_terms true, the    *)
(* compliance checker of either mode returns total_issues 0, no issues and *)
(* exactly one recommendation.                                             *)
C7_NoFlaggedClauseReport ==
    (ComplianceDone /\ FlaggedIndices(payload.clauses) = {}) =>
        /\ response.compliance.total_issues = 0
        /\ response.compliance.compliance_issues = << >>
        /\ Len(response.compliance.recommendations) = 1

C7_Witness ==
    /\ ComplianceDone /\ mode = "ai"
    /\ Len(payload.clauses) = 2
    /\ "has_warranty_terms" \notin DOMAIN payload.clauses[1]
    /\ "has_warranty_terms" \in DOMAIN payload.clauses[2]
    /\ FlaggedIndices(payload.clauses) = {}
    /\ response.compliance.total_issues = 0

(* C8: the report holds one notice-deficiency issue for each flagged       *)
(* clause whose lower-cased text contains "disclaim" and not "notice", and *)
(* none for any other clause.                                              *)
C8_NoticeIssuePerDisclaimerWithoutNotice ==
    ComplianceDone =>
        Count(response.compliance.compliance_issues, NoticeIssue)
            = Cardinality({ k \in FlaggedIndices(payload.clauses) :
                              /\ contains(TextOf(payload.clauses[k]), "disclaim")
                              /\ ~contains(TextOf(payload.clauses[k]), "notice") })

C8_Witness ==
    /\ ComplianceDone /\ mode = "ai"
    /\ payload.clauses =
          << [clause |-> "We disclaim warranty upon notice", has_warranty_terms |-> TRUE],
             [clause |-> "Seller DISCLAIMS all reasonable warranties",
              has_warranty_terms |-> TRUE] >>
    /\ Count(response.compliance.compliance_issues, NoticeIssue) = 1

(* C9: check_warranty_compliance appends the consistency recommendation    *)
(* exactly once, as the last recommendation, when more than 3 records are  *)
(* flagged, and not at all when 1 to 3 records are flagged.                *)
C9_ConsistencyRecommendationOnce ==
    (ComplianceDone /\ mode = "ai") =>
        LET n == Cardinality(FlaggedIndices(payload.clauses))
            recs == response.compliance.recommendations
        IN  /\ n > 3 => /\ Count(recs, ConsistencyRecommendation) = 1
                        /\ recs[Len(recs)] = ConsistencyRecommendation
            /\ n \in 1..3 => Count(recs, ConsistencyRecommendation) = 0

C9_Witness ==
    /\ ComplianceDone /\ mode = "ai"
    /\ Cardinality(FlaggedIndices(payload.clauses)) = 4
    /\ Len(response.compliance.recommendations) = 3
    /\ response.compliance.recommendations[3] = ConsistencyRecommendation

---------------------------------------------------------------------------
(* Properties of the risk level.                                           *)

\* a /grantie/analyze/ response whose risk level was computed from keywords
RiskComputed ==
    /\ pc = "done" /\ endpoint = "/grantie/analyze/"
    /\ "grantie_analysis" \in DOMAIN response
    /\ response.grantie_analysis.summary.risk_level # "Unknown"

TierBy(high, medium, text) ==
    IF \E k \in 1..Len(high) : contains(lower(text), high[k]) THEN "High"
    ELSE IF \E k \in 1..Len(medium) : contains(lower(text), medium[k]) THEN "Medium"
    ELSE "Low"

(* C10 as stated: in both modes the risk level is High for every text with *)
(* one of disclaim, as-is, no warranty, liability, limitation; Medium when *)
(* none of these and one of limited warranty, conditional, subject to is   *)
(* present; Low otherwise.                                                 *)
C10_RiskTierBySpecKeywords ==
    RiskComputed =>
        response.grantie_analysis.summary.risk_level
            = TierBy(<<"disclaim", "as-is", "no warranty", "liability", "limitation">>,
                     <<"limited warranty", "conditional", "subject to">>,
                     payload.text)

(* C10 amended: High is evaluated before Medium in both modes; the AI mode *)
(* (after a successful completion call) uses the keyword sets above, the   *)
(* keyword-only mode uses High = disclaim, as-is, no warranty, limitation  *)
(* of liability and Medium = limited warranty, conditional.                *)
C10_RiskTierByModeKeywords ==
    RiskComputed =>
        response.grantie_analysis.summary.risk_level
            = IF mode = "ai"
              THEN TierBy(<<"disclaim", "as-is", "no warranty", "liability", "limitation">>,
                          <<"limited warranty", "conditional", "subject to">>,
                          payload.text)
              ELSE TierBy(<<"disclaim", "as-is", "no warranty", "limitation of liability">>,
                          <<"limited warranty", "conditional">>,
                          payload.text)

C10_Witness ==
    /\ RiskComputed /\ mode = "ai"
    /\ payload.text = "Limited warranty; seller disclaims the rest"
    /\ response.grantie_analysis.summary.risk_level = "High"

---------------------------------------------------------------------------
(* Properties of triage and risk level together.                           *)

MentionsDisclaimOrAsIs(text) ==
    LET lowered == lower(text)
    IN  contains(lowered, "disclaim") \/ contains(lowered, "as-is")

(* C11: every clause text containing "disclaim" or "as-is" in any letter   *)
(* case is flagged has_warranty_terms by the per-clause triage, and every  *)
(* such text is given risk level High by the risk-level computation.       *)
C11_DisclaimOrAsIsFlaggedAndHigh ==
    /\ pc = "returned" =>
          \A k \in 1..Len(ret) :
              ret[k].has_warranty_terms \/ ~MentionsDisclaimOrAsIs(ret[k].clause)
    /\ RiskComputed =>
          (MentionsDisclaimOrAsIs(payload.text)
              => response.grantie_analysis.summary.risk_level = "High")

C11_Witness ==
    /\ Returned /\ Len(ret) = 1
    /\ ret[1].clause = "Seller DISCLAIMS all WARRANTIES; sold AS-IS."
    /\ ret[1].has_warranty_terms

---------------------------------------------------------------------------
(* Properties of the endpoints.                                            *)

(* C12: every endpoint returns a well-formed response and lets no raw      *)
(* exception escape, for every payload and every upstream outcome.         *)
C12_NoRawException ==
    pc = "done" => "exception" \notin DOMAIN response

\* the document-level warranty analysis of main.py has returned
WarrantyAnalysisDone ==
    /\ pc = "done" /\ endpoint = "/grantie/analyze/" /\ mode = "ai"
    /\ get(payload, "text", "") # ""

\* the outcome of the completion call the document-level analysis made
WarrantyCallFailed ==
    /\ Len(calls) = 1
    /\ calls[1][1] = "analyze_warranties_and_guarantees"
    /\ calls[1][3] # "ok"

(* C13: the document-level warranty analysis returns risk_level Unknown    *)
(* exactly when its completion call failed; then has_warranties and        *)
(* has_guarantees are both false and no exception escapes; after a         *)
(* successful call risk_level is High, Medium or Low.                      *)
C13_UnknownIffCallFailed ==
    WarrantyAnalysisDone =>
        /\ DOMAIN response = {"grantie_analysis"}
        /\ LET summary == response.grantie_analysis.summary
           IN  /\ summary.risk_level = "Unknown" <=> WarrantyCallFailed
               /\ WarrantyCallFailed =>
                     /\ summary.has_warranties = FALSE
                     /\ summary.has_guarantees = FALSE
               /\ ~WarrantyCallFailed =>
                     summary.risk_level \in {"High", "Medium", "Low"}

C13_Witness ==
    /\ WarrantyAnalysisDone /\ WarrantyCallFailed
    /\ calls[1][3] = "RateLimitError"
    /\ payload.text = "We guarantee and warrant the goods"
    /\ response.grantie_analysis.summary
          = [has_warranties |-> FALSE, has_guarantees |-> FALSE, risk_level |-> "Unknown"]

(* C14: /grantie/analyze/ with missing or empty text answers "No text      *)
(* provided for analysis", /grantie/compliance/ with a missing or empty    *)
(* clauses list answers "No clauses provided for compliance check"; in     *)
(* both cases no completion call is made and no compliance report built.   *)
C14_EmptyInputRejectedWithoutWork ==
    /\ (pc = "done" /\ endpoint = "/grantie/analyze/" /\ get(payload, "text", "") = "")
          => /\ response = [error |-> "No text provided for analysis"]
             /\ calls = << >> /\ inflight = { }
    /\ (pc = "done" /\ endpoint = "/grantie/compliance/"
            /\ Len(get(payload, "clauses", << >>)) = 0)
          => /\ response = [error |-> "No clauses provided for compliance check"]
             /\ calls = << >> /\ inflight = { }

C14_Witness ==
    /\ pc = "done" /\ endpoint = "/grantie/compliance/"
    /\ payload = [clauses |-> << >>]
    /\ response = [error |-> "No clauses provided for compliance check"]

C14_WitnessMissingText ==
    /\ pc = "done" /\ endpoint = "/grantie/analyze/" /\ mode = "ai" /\ api_key
    /\ payload = EmptyPayload
    /\ response = [error |-> "No text provided for analysis"]

(* C16: in every report of the compliance checker (both branches of        *)
(* check_warranty_compliance, and simple_compliance_check) total_issues    *)
(* equals the length of the issues list.                                   *)
C16_TotalIssuesIsLength ==
    ComplianceDone =>
        response.compliance.total_issues = Len(response.compliance.compliance_issues)

C16_Witness ==
    /\ ComplianceDone /\ mode = "ai"
    /\ Len(response.compliance.compliance_issues) = 2
    /\ Len(response.compliance.recommendations) = 0
    /\ response.compliance.total_issues = 2

---------------------------------------------------------------------------
(* Properties of /speak/.                                                  *)

(* C15: for every request to /speak/ the text handed to the speech         *)
(* synthesis service is at most 500 characters long.                       *)
C15_SynthesisTextAtMostLimit ==
    \A k \in 1..Len(tts_requests) : Len(tts_requests[k]) <= tts_text_limit

---------------------------------------------------------------------------
(* Properties of the completion calls of analyze_uploaded_file.            *)

Explain == "analyze_clause_with_openai"
Grantie == "analyze_clause_for_grantie"

\* the <<function, clause index>> of every call issued so far
Issued == inflight \cup { <<calls[k][1], calls[k][2]>> : k \in 1..Len(calls) }

C18_WarrantyCallOnlyIfFlagged ==
    \A k \in { call[2] : call \in { c \in inflight : c[1] = Grantie } } :
        /\ k \in 1..Len(clauses)
        /\ Len(strip(clauses[k])) >= 10
        /\ LET text == lower(clauses[k])
           IN  \E keyword \in {"warrant", "guarantee", "assure", "promise",
                                "liability", "disclaim", "as-is"} :
                  contains(text, keyword)

C18_Witness ==
    /\ pc = "returned" /\ mode = "ai"
    /\ Len(clauses) = 2 /\ Len(ret) = 1
    /\ Len(strip(clauses[1])) < 10
    /\ Issued = { <<Explain, 2>>, <<Grantie, 2>> }

C18_WitnessUnflagged ==
    /\ pc = "returned" /\ mode = "ai"
    /\ Len(ret) = 2
    /\ ~ret[1].has_warranty_terms /\ ret[2].has_warranty_terms
    /\ Issued = { <<Explain, 1>>, <<Explain, 2>>, <<Grantie, 2>> }

(* C19: a missing API key is detected before any completion call is        *)
(* attempted, at every point where a call would be made.                   *)
C19_NoCallWithoutKey ==
    (mode = "ai" /\ ~api_key) => Issued = { }

(* C20: within one run of analyze_uploaded_file at most one completion     *)
(* call is in flight, and calls are issued in clause order: the explain    *)
(* call of a clause completes before its warranty-analysis call starts,    *)
(* and every call of a clause completes before a call of the next starts.  *)
C20_OneCallAtATimeInClauseOrder ==
    endpoint = "/analyze/" =>
        /\ Cardinality(inflight) <= 1
        /\ \A a, b \in 1..Len(calls) :
              a < b => \/ calls[a][2] < calls[b][2]
                       \/ /\ calls[a][2] = calls[b][2]
                          /\ calls[a][1] = Explain /\ calls[b][1] = Grantie
        /\ \A call \in inflight : \A a \in 1..Len(calls) :
              \/ calls[a][2] < call[2]
              \/ /\ calls[a][2] = call[2]
                 /\ calls[a][1] = Explain /\ call[1] = Grantie

C20_Witness ==
    /\ endpoint = "/analyze/"
    /\ Len(calls) = 3
    /\ calls[1][1] = Explain /\ calls[1][2] = 1
    /\ calls[2][1] = Grantie /\ calls[2][2] = 1
    /\ calls[3][1] = Explain /\ calls[3][2] = 2
    /\ inflight = { <<Grantie, 2>> }

---------------------------------------------------------------------------
(* Properties of the except branch of analyze_uploaded_file.               *)

(* C21: when an exception escapes a step inside analyze_uploaded_file, the *)
(* function returns instead of propagating it, and what it returns is a    *)
(* list of exactly one record, with clause "Error processing document",    *)
(* has_warranty_terms false and no warranty-analysis field, holding none   *)
(* of the records built before the exception.                              *)
C21_ExceptionBecomesSingleErrorRecord ==
    (Returned /\ exc # "") =>
        /\ Len(ret) = 1
        /\ DOMAIN ret[1] = {"clause", "analysis", "has_warranty_terms"}
        /\ ret[1].clause = "Error processing document"
        /\ ret[1].analysis = "Failed to analyze document: " \o exc
        /\ ret[1].has_warranty_terms = FALSE
        /\ \A k \in 1..Len(results) : results[k] # ret[1]

C21_Witness ==
    /\ Returned /\ mode = "ai" /\ ~api_key
    /\ upload.paragraphs = <<" Pay taxes ", "Buyer shall pay now.">>
    /\ i = 2
    /\ exc = "OpenAI API key not configured. Please check your .env file."
    /\ Len(ret) = 1 /\ ret[1].clause = "Error processing document"

---------------------------------------------------------------------------
(* Properties of the order and the frame of check_warranty_compliance.     *)

VagueIssue == "Vague warranty terms found - consider more specific language"

TimeRecommendation == "Consider adding specific time limits for warranty coverage"

\* what one record contributes, by the rules as the specification words them
ContributionOf(r) ==
    LET text == TextOf(r)
    IN  [issues |->
             (IF \E w \in {"reasonable", "satisfactory", "appropriate"} : contains(text, w)
              THEN <<VagueIssue>> ELSE << >>)
             \o (IF contains(text, "disclaim") /\ ~contains(text, "notice")
                 THEN <<"Warranty disclaimer may lack proper notice requirements">>
                 ELSE << >>),
         recommendations |->
             IF contains(text, "warranty")
                /\ ~\E w \in {"days", "months", "years", "period"} : contains(text, w)
             THEN <<TimeRecommendation>> ELSE << >>]

\* the contributions of the flagged records, concatenated in list order
RECURSIVE ContributionsInOrder(_)
ContributionsInOrder(list) ==
    IF Len(list) = 0 THEN [issues |-> << >>, recommendations |-> << >>]
    ELSE LET rest == ContributionsInOrder(Tail(list))
         IN  IF FlagTrue(Head(list))
             THEN LET own == ContributionOf(Head(list))
                  IN  [issues |-> own.issues \o rest.issues,
                       recommendations |-> own.recommendations \o rest.recommendations]
             ELSE rest

(* C22: for a non-empty flagged set, the issues of check_warranty_         *)
(* compliance are the concatenation, in flagged-clause order, of each      *)
(* clause's own issues (vague-language issue, then notice-deficiency       *)
(* issue), and its recommendations are the concatenation, in flagged-      *)
(* clause order, of each clause's time-bound recommendation, followed by   *)
(* the document-level addendum if any.                                     *)
C22_IssuesAndRecommendationsInClauseOrder ==
    (ComplianceDone /\ mode = "ai" /\ FlaggedIndices(payload.clauses) # { }) =>
        LET expected == ContributionsInOrder(payload.clauses)
        IN  /\ response.compliance.compliance_issues = expected.issues
            /\ response.compliance.recommendations =
                  expected.recommendations
                     \o (IF Cardinality(FlaggedIndices(payload.clauses)) > 3
                         THEN <<ConsistencyRecommendation>> ELSE << >>)

C22_Witness ==
    /\ ComplianceDone /\ mode = "ai"
    /\ Len(payload.clauses) = 4
    /\ response.compliance.compliance_issues
          = <<VagueIssue, "Warranty disclaimer may lack proper notice requirements",
              VagueIssue>>
    /\ response.compliance.recommendations
          = <<TimeRecommendation, TimeRecommendation, ConsistencyRecommendation>>

(* C23: the report of check_warranty_compliance depends only on the        *)
(* records whose has_warranty_terms is true: it is the report of the list  *)
(* with every record whose flag is false or absent removed, so adding,     *)
(* removing or changing such a record changes nothing; the list it was     *)
(* given is still the request's list when it has returned.                 *)
C23_ReportDependsOnFlaggedRecordsOnly ==
    (ComplianceDone /\ mode = "ai") =>
        /\ response.compliance
              = check_warranty_compliance(SelectSeq(payload.clauses, FlagTrue))
        /\ payload \in CompliancePayloads

C23_Witness ==
    /\ ComplianceDone /\ mode = "ai"
    /\ Len(payload.clauses) = 4
    /\ FlaggedIndices(payload.clauses) = {2}
    /\ payload.clauses[1] = [clause |-> "We disclaim everything", has_warranty_terms |-> FALSE]
    /\ payload.clauses[3] = [clause |-> "Seller DISCLAIMS all reasonable warranties"]
    /\ response.compliance.total_issues = 2
    /\ response.compliance.recommendations = << >>

---------------------------------------------------------------------------
(* Properties of /grantie/full-analysis/.                                  *)

FullAnalysisDone == pc = "done" /\ endpoint = "/grantie/full-analysis/"

\* analyze_uploaded_file gave up on the document as a whole: the stored
\* upload could not be parsed, or it held no paragraph with text
StructuralAbort == exc # "" /\ tmp_path /\ clauses = << >>

(* C24: when the clause pipeline of /grantie/full-analysis/ aborts on a    *)
(* structural error of the document, the response reports only the error:  *)
(* no document-level completion call is issued afterwards, and no warranty *)
(* summary or compliance report is derived from the error record.          *)
C24_AbortedFullAnalysisReportsOnlyError ==
    (FullAnalysisDone /\ StructuralAbort) =>
        /\ \A k \in 1..Len(calls) : calls[k][1] # "analyze_warranties_and_guarantees"
        /\ "warranty_analysis" \notin DOMAIN response
        /\ "compliance" \notin DOMAIN response

---------------------------------------------------------------------------
(* Properties relating the two applications, and the number of calls.      *)

\* a returned list projected onto (clause, has_warranty_terms)
Projection(list) == [k \in 1..Len(list) |-> <<list[k].clause, list[k].has_warranty_terms>>]

MentionsWarrantyKeyword(text) ==
    LET lowered == lower(text)
    IN  \E keyword \in {"warrant", "guarantee", "assure", "promise",
                        "liability", "disclaim", "as-is"} : contains(lowered, keyword)

RECURSIVE TriageFrom(_, _)
TriageFrom(paragraphs, threshold) ==
    IF Len(paragraphs) = 0 THEN << >>
    ELSE LET text == strip(Head(paragraphs))
         IN  (IF Len(text) >= threshold
              THEN << <<text, MentionsWarrantyKeyword(text)>> >> ELSE << >>)
                 \o TriageFrom(Tail(paragraphs), threshold)

\* what analyze_uploaded_file is to return for the upload, projected, when
\* clauses shorter than the threshold are dropped
ExpectedProjection(threshold) ==
    IF ~tmp_path \/ ~upload.parseable
          \/ \A k \in 1..Len(upload.paragraphs) : strip(upload.paragraphs[k]) = ""
    THEN << <<"Error processing document", FALSE>> >>
    ELSE TriageFrom(upload.paragraphs, threshold)

AtLeastTwenty(pair) == Len(strip(pair[1])) >= 20

(* C26: for every document the keyword-only application and the AI         *)
(* application (service configured) agree on triage: projected onto        *)
(* (clause, has_warranty_terms), the keyword-only result is the AI result  *)
(* restricted to clauses of trimmed length at least 20, in the same order. *)
(* The AI result is a function of the upload alone (first case); the       *)
(* keyword-only result is that function's value restricted (second case).  *)
(* What is returned is the list the loop has built, or the error record:   *)
(* the list is compared where the loop ends, the error record where it is  *)
(* returned.                                                               *)
C26_ModesAgreeOnTriage ==
    (mode = "ai" => api_key) =>
        /\ (pc = "returned" /\ exc = "") => ret = results
        /\ (pc = "returned" /\ exc # "") \/ (pc = "loop" /\ i > Len(clauses)) =>
              LET ai_result == ExpectedProjection(10)
              IN  Projection(IF pc = "returned" THEN ret ELSE results)
                     = IF mode = "ai" THEN ai_result
                       ELSE SelectSeq(ai_result, AtLeastTwenty)

C26_Witness ==
    /\ pc = "returned" /\ mode = "free"
    /\ upload.paragraphs = <<"Pay on due", "Seller DISCLAIMS all WARRANTIES; sold AS-IS.">>
    /\ Projection(ret) = << <<"Seller DISCLAIMS all WARRANTIES; sold AS-IS.", TRUE>> >>

C26_WitnessAI ==
    /\ pc = "returned" /\ mode = "ai" /\ api_key
    /\ upload.paragraphs = <<"Pay on due", "Seller DISCLAIMS all WARRANTIES; sold AS-IS.">>
    /\ Projection(ret) = << <<"Pay on due", FALSE>>,
                            <<"Seller DISCLAIMS all WARRANTIES; sold AS-IS.", TRUE>> >>

\* how often the call <<function, index>> was made
TimesCalled(function, index) ==
    Cardinality({ c \in 1..Len(calls) : calls[c][1] = function /\ calls[c][2] = index })

\* the position in the returned list of the record of clause j
RecordOf(j) == Cardinality({ m \in 1..j : Len(clauses[m]) >= 10 })

(* C27: a run of analyze_uploaded_file in the AI application with the key  *)
(* configured, over a document with n surviving clauses of which k are     *)
(* flagged, makes exactly n + k completion calls whatever their outcomes:  *)
(* one explain call per surviving clause, one warranty-analysis call per   *)
(* flagged clause, none for a clause dropped by the length filter.         *)
C27_OneCallPerClauseAndPerFlag ==
    (pc = "returned" /\ mode = "ai" /\ api_key /\ exc = "") =>
        LET surviving == { j \in 1..Len(clauses) : Len(clauses[j]) >= 10 }
            flagged == { j \in surviving : ret[RecordOf(j)].has_warranty_terms }
        IN  /\ Len(ret) = Cardinality(surviving)
            /\ Len(calls) = Cardinality(surviving) + Cardinality(flagged)
            /\ inflight = { }
            /\ \A j \in 1..Len(clauses) :
                  /\ TimesCalled(Explain, j) = IF j \in surviving THEN 1 ELSE 0
                  /\ TimesCalled(Grantie, j) = IF j \in flagged THEN 1 ELSE 0

C27_Witness ==
    /\ pc = "returned" /\ mode = "ai" /\ api_key /\ exc = ""
    /\ upload.paragraphs = <<" Pay taxes ", "Seller DISCLAIMS all WARRANTIES; sold AS-IS.">>
    /\ Len(calls) = 2
    /\ calls[1] = <<Explain, 2, "RateLimitError">>
    /\ calls[2] = <<Grantie, 2, "Exception">>

============================================================================
